---- MODULE Spec2Model ----
(***************************************************************************)
(* The GxP Compliance Assistant frontend: the UploadBox component          *)
(* (frontend/src/components/UploadBox.jsx), the Dashboard page that owns   *)
(* it (frontend/src/pages/Dashboard.jsx) and the earlier UploadBox variant *)
(* kept in the repository (unnamed/part_000).  The backend is reached only *)
(* through fetch; its answers are inputs.                                  *)
(***************************************************************************)
EXTENDS Integers, Sequences, FiniteSets, TLC

VARIABLES
    \* UploadBox.jsx state (useState, lines 4-8)
    isDragging, files, uploading, uploadSuccess, error,
    \* the uploadFiles run in progress or last ended, and the timers it set
    run, resetTimers, runsStarted,
    \* every file handed to POST /analyze-sop/, in order
    posted,
    \* Dashboard.jsx state (useState, lines 8-19)
    stats, loading, analysisResults, apiHealth, dbStats,
    \* Dashboard timers and requests in flight
    pendingBatches, statsRequests, healthPending,
    \* what the timer callback of the Dashboard has processed so far
    seen,
    \* the grouped findings rendered for analysisResults (Dashboard.jsx 207-256)
    view,
    \* the UploadBox variant of unnamed/part_000
    legacyBox,
    \* the backend Scorer (spec section 4.5)
    scorer

uploadVars == <<isDragging, files, uploading, uploadSuccess, error, run,
                resetTimers, runsStarted, posted>>
dashVars   == <<stats, loading, analysisResults, apiHealth, dbStats,
                pendingBatches, statsRequests, healthPending, seen>>
vars == <<uploadVars, dashVars, view, legacyBox, scorer>>

----------------------------------------------------------------------------
(* Bounds of the model *)

\* files the selected-files list may hold
MaxFiles == 2
\* files handed to handleFiles by one drop or one file-input change
MaxDrop == 1
\* clicks on Upload Files
MaxRuns == 2
\* findings of one result in the grouping specification
MaxFindings == 4
\* findings handed to the Scorer
MaxScored == 5

----------------------------------------------------------------------------
(* JavaScript values *)

\* an optional property: absent (undefined) or present with a value
Absent == <<>>
Some(v) == <<v>>

\* a value that is a string in one state and a number in another
Str(s) == [isNum |-> FALSE, n |-> 0, s |-> s]
Num(n) == [isNum |-> TRUE, n |-> n, s |-> ""]

\* the lower-case letter of every upper-case letter
LowerOf ==
    ("A" :> "a") @@ ("B" :> "b") @@ ("C" :> "c") @@ ("D" :> "d") @@ ("E" :> "e") @@
    ("F" :> "f") @@ ("G" :> "g") @@ ("H" :> "h") @@ ("I" :> "i") @@ ("J" :> "j") @@
    ("K" :> "k") @@ ("L" :> "l") @@ ("M" :> "m") @@ ("N" :> "n") @@ ("O" :> "o") @@
    ("P" :> "p") @@ ("Q" :> "q") @@ ("R" :> "r") @@ ("S" :> "s") @@ ("T" :> "t") @@
    ("U" :> "u") @@ ("V" :> "v") @@ ("W" :> "w") @@ ("X" :> "x") @@ ("Y" :> "y") @@
    ("Z" :> "z")

CharAt(s, i) == SubSeq(s, i, i)

\* String.prototype.toLowerCase on one character
LowerChar(c) == IF c \in DOMAIN LowerOf THEN LowerOf[c] ELSE c

RECURSIVE toLowerCase(_)
toLowerCase(s) ==
    IF Len(s) = 0 THEN ""
    ELSE LowerChar(CharAt(s, 1)) \o toLowerCase(SubSeq(s, 2, Len(s)))

\* String.prototype.endsWith
endsWith(s, suffix) ==
    /\ Len(s) >= Len(suffix)
    /\ SubSeq(s, Len(s) - Len(suffix) + 1, Len(s)) = suffix

\* String.prototype.includes
includes(s, sub) ==
    \E i \in 1..(Len(s) - Len(sub) + 1) : SubSeq(s, i, i + Len(sub) - 1) = sub

Digits == "0123456789"

\* Number-to-string conversion of a non-negative integer
RECURSIVE NumToString(_)
NumToString(n) ==
    IF n < 10 THEN CharAt(Digits, n + 1)
    ELSE NumToString(n \div 10) \o CharAt(Digits, (n % 10) + 1)

RECURSIVE SumSeq(_)
SumSeq(s) == IF s = <<>> THEN 0 ELSE Head(s) + SumSeq(Tail(s))

\* the sequences over S of length lo..hi
SeqsOf(S, lo, hi) == UNION {[1..n -> S] : n \in lo..hi}

----------------------------------------------------------------------------
(* Files the user can drop or pick *)

TenMB == 10485760

File(name, type, size) == [name |-> name, type |-> type, size |-> size]

FileUniverse ==
    { File("sop.docx",
           "application/vnd.openxmlformats-officedocument.wordprocessingml.document",
           4096),
      File("Big.PDF", "application/pdf", TenMB + 1),
      File("notes.txt", "text/plain", 512),
      File("old.doc", "application/msword", 2048),
      File("logo.png", "image/png", 1024) }

\* FileList handed over by a drop or by the file input
DropInputs == SeqsOf(FileUniverse, 1, MaxDrop)

----------------------------------------------------------------------------
(* Answers of the backend *)

Finding(category, severity) == [category |-> category, severity |-> severity]

\* JSON bodies of POST /analyze-sop/ ; a category of "" is a missing one
BodyClean ==
    [score |-> 90, findings |-> <<>>,
     embedding_info |-> Some([chunks_stored |-> Some(5)]),
     filename |-> Absent]
BodyIssues ==
    [score |-> 45,
     findings |-> <<Finding("Structure", "Minor"), Finding("Structure", "Critical")>>,
     embedding_info |-> Absent,
     filename |-> Some("stored.pdf")]
\* the analysis of a document is a function of the document
AnalyzeBodies(file) == IF file.size > TenMB THEN {BodyIssues} ELSE {BodyClean}

\* messages of the errors fetch() and response.json() reject with
RejectMessages == {"Failed to fetch"}

\* JSON bodies of GET /api/documents/stats : data.stats, when present
StatsBodies ==
    { Some([unique_documents |-> 2, total_chunks |-> 8]) }

\* JSON bodies of GET /health
HealthBodies == { [status |-> "healthy"] }

----------------------------------------------------------------------------
(* UploadBox.jsx *)

NoError == ""

\* lines 34-37: the filter of handleFiles
IsValidFile(file) ==
    LET fileName == toLowerCase(file.name)
    IN  endsWith(fileName, ".pdf") \/ endsWith(fileName, ".docx")

\* lines 34-37
validFiles(newFiles) == SelectSeq(newFiles, IsValidFile)

\* lines 32-41
handleFiles(newFiles) ==
    LET accepted == validFiles(newFiles)
    IN  /\ Len(files) + Len(accepted) <= MaxFiles
        /\ files' = files \o accepted
        /\ error' = NoError

\* lines 19-25
handleDrop ==
    \E droppedFiles \in DropInputs :
        /\ isDragging' = FALSE
        /\ handleFiles(droppedFiles)
        /\ UNCHANGED <<uploading, uploadSuccess, run, resetTimers, runsStarted, posted>>
        /\ UNCHANGED <<dashVars, view, legacyBox, scorer>>

\* lines 27-30
handleFileInput ==
    \E selectedFiles \in DropInputs :
        /\ handleFiles(selectedFiles)
        /\ UNCHANGED <<isDragging, uploading, uploadSuccess, run, resetTimers,
                       runsStarted, posted>>
        /\ UNCHANGED <<dashVars, view, legacyBox, scorer>>

\* lines 10-13
handleDragOver ==
    /\ isDragging' = TRUE
    /\ UNCHANGED <<files, uploading, uploadSuccess, error, run, resetTimers,
                   runsStarted, posted>>
    /\ UNCHANGED <<dashVars, view, legacyBox, scorer>>

\* lines 15-17
handleDragLeave ==
    /\ isDragging' = FALSE
    /\ UNCHANGED <<files, uploading, uploadSuccess, error, run, resetTimers,
                   runsStarted, posted>>
    /\ UNCHANGED <<dashVars, view, legacyBox, scorer>>

\* line 44: files.filter((_, index) => index !== indexToRemove), 0-based
WithoutIndex(list, indexToRemove) ==
    LET keep == {k \in 1..Len(list) : k - 1 # indexToRemove}
        pos(j) == CHOOSE k \in keep : Cardinality({m \in keep : m < k}) = j - 1
    IN  [j \in 1..Cardinality(keep) |-> list[pos(j)]]

\* lines 43-45, called from the button of row index (lines 168-172)
removeFile ==
    \E indexToRemove \in 0..(Len(files) - 1) :
        /\ files' = WithoutIndex(files, indexToRemove)
        /\ UNCHANGED <<isDragging, uploading, uploadSuccess, error, run,
                       resetTimers, runsStarted, posted>>
        /\ UNCHANGED <<dashVars, view, legacyBox, scorer>>

\* lines 71-74: { filename: file.name, ...result }
ResultEntry(file, result) ==
    [filename |-> IF result.filename # Absent THEN result.filename[1] ELSE file.name,
     score |-> result.score,
     findings |-> result.findings,
     embedding_info |-> result.embedding_info]

IdleRun ==
    [status |-> "idle", batch |-> <<>>, i |-> 0, bodies |-> <<>>,
     results |-> <<>>, delivered |-> <<>>, listEmptyAtCall |-> FALSE,
     postedBefore |-> 0]

\* a button that is disabled for an empty list only
uploadDisabledWhenEmpty == Len(files) = 0

\* line 184: disabled={uploading || files.length === 0}
uploadDisabled == uploading \/ Len(files) = 0

\* lines 47-64: the click on Upload Files up to the first await; the button is
\* rendered for a non-empty list and disabled while uploading (lines 156, 184)
uploadFiles ==
    /\ ~uploadDisabled
    /\ files # <<>>
    /\ runsStarted < MaxRuns
    /\ runsStarted' = runsStarted + 1
    /\ uploading' = TRUE
    /\ error' = NoError
    /\ run' = [status |-> "inflight", batch |-> files, i |-> 1, bodies |-> <<>>,
               results |-> <<>>, delivered |-> <<>>, listEmptyAtCall |-> FALSE,
               postedBefore |-> Len(posted)]
    /\ posted' = Append(posted, files[1])
    /\ UNCHANGED <<isDragging, files, uploadSuccess, resetTimers>>
    /\ UNCHANGED <<dashVars, view, legacyBox, scorer>>

\* a loop that does not advance to the next file
NextToPostStuck(r) == r.batch[r.i]

\* the file the loop of lines 57-75 posts after the i-th response was OK
NextToPost(r) == r.batch[r.i + 1]

\* a loop that stops one file early
HasNextOffByOne(r) == r.i + 1 < Len(r.batch)

\* whether the loop of lines 57-75 has another file after the i-th
HasNext(r) == r.i < Len(r.batch)

\* lines 66-75 then 57-64: an OK response with a JSON body while files remain
analyzeOkNext ==
    /\ run.status = "inflight"
    /\ HasNext(run)
    /\ \E result \in AnalyzeBodies(run.batch[run.i]) :
        /\ run' = [run EXCEPT !.i = @ + 1,
                              !.bodies = Append(@, result),
                              !.results = Append(@, ResultEntry(run.batch[run.i], result))]
        /\ posted' = Append(posted, NextToPost(run))
        /\ UNCHANGED <<isDragging, files, uploading, uploadSuccess, error,
                       resetTimers, runsStarted>>
        /\ UNCHANGED <<dashVars, view, legacyBox, scorer>>

\* Dashboard.jsx lines 53-57: handleAnalysisResults up to the timer
handleAnalysisResults(results) ==
    /\ loading' = TRUE
    /\ pendingBatches' = Append(pendingBatches, results)

\* lines 66-89: the OK response to the last file of the batch
analyzeOkLast ==
    /\ run.status = "inflight"
    /\ ~HasNext(run)
    /\ \E result \in AnalyzeBodies(run.batch[run.i]) :
        LET results == Append(run.results, ResultEntry(run.batch[run.i], result))
        IN  /\ uploading' = FALSE
            /\ uploadSuccess' = TRUE
            /\ handleAnalysisResults(results)
            /\ resetTimers' = resetTimers + 1
            /\ run' = [run EXCEPT !.status = "done",
                                  !.bodies = Append(@, result),
                                  !.results = results,
                                  !.delivered = Append(@, results),
                                  !.listEmptyAtCall = (files = <<>>)]
            /\ UNCHANGED <<isDragging, files, error, runsStarted, posted>>
            /\ UNCHANGED <<stats, analysisResults, apiHealth, dbStats,
                           statsRequests, healthPending, seen>>
            /\ UNCHANGED <<view, legacyBox, scorer>>

\* a catch block that shows the error and leaves uploading as it is
catchErrorStillUploading(message) ==
    /\ run.status = "inflight"
    /\ uploading' = uploading
    /\ error' = message
    /\ run' = [run EXCEPT !.status = "failed"]
    /\ UNCHANGED <<isDragging, files, uploadSuccess, resetTimers, runsStarted, posted>>
    /\ UNCHANGED <<dashVars, view, legacyBox, scorer>>

\* lines 91-95: the catch block
catchError(message) ==
    /\ run.status = "inflight"
    /\ uploading' = FALSE
    /\ error' = message
    /\ run' = [run EXCEPT !.status = "failed"]
    /\ UNCHANGED <<isDragging, files, uploadSuccess, resetTimers, runsStarted, posted>>
    /\ UNCHANGED <<dashVars, view, legacyBox, scorer>>

\* lines 66-68: a response that is not OK
analyzeNotOk ==
    /\ run.status = "inflight"
    /\ catchError("Failed to analyze " \o run.batch[run.i].name)

\* lines 61 and 70: fetch or response.json() rejects
analyzeRejected ==
    \E message \in RejectMessages :
        /\ run.status = "inflight"
        /\ catchError(message)

\* lines 86-89: the timer set after a successful batch
resetAfterSuccess ==
    /\ resetTimers > 0
    \* the 1 s timer of handleAnalysisResults set just before it fires first
    /\ Len(pendingBatches) < resetTimers
    /\ resetTimers' = resetTimers - 1
    /\ files' = <<>>
    /\ uploadSuccess' = FALSE
    /\ UNCHANGED <<isDragging, uploading, error, run, runsStarted, posted>>
    /\ UNCHANGED <<dashVars, view, legacyBox, scorer>>

----------------------------------------------------------------------------
(* Dashboard.jsx *)

\* lines 8-13
InitialStats ==
    [documentsUploaded |-> 0, complianceScore |-> "--",
     issuesFound |-> Str("--"), chunksStored |-> 0]

\* Math.round of sum / count for a non-negative sum: halves round up
RoundedAverage(sum, count) == (2 * sum + count) \div (2 * count)

\* line 65: result.embedding_info?.chunks_stored || 0
ChunksOf(result) ==
    IF result.embedding_info = Absent THEN 0
    ELSE IF result.embedding_info[1].chunks_stored = Absent THEN 0
    ELSE result.embedding_info[1].chunks_stored[1]

\* line 62: the sum of the scores of the batch
ScoreSum(results) == SumSeq([k \in 1..Len(results) |-> results[k].score])

\* line 63
totalIssues(results) == SumSeq([k \in 1..Len(results) |-> Len(results[k].findings)])

\* lines 64-66
totalChunks(results) == SumSeq([k \in 1..Len(results) |-> ChunksOf(results[k])])

\* lines 61-62, 70: Math.round(averageScore) + "%"
ComplianceScore(results) ==
    NumToString(RoundedAverage(ScoreSum(results), Len(results))) \o "%"

\* an updater that overwrites the two counts with those of the batch
NextStatsPerBatch(prevStats, results) ==
    [documentsUploaded |-> Len(results),
     complianceScore |-> ComplianceScore(results),
     issuesFound |-> Num(totalIssues(results)),
     chunksStored |-> totalChunks(results)]

\* lines 68-73: the updater handed to setStats
NextStats(prevStats, results) ==
    [documentsUploaded |-> prevStats.documentsUploaded + Len(results),
     complianceScore |-> ComplianceScore(results),
     issuesFound |-> Num(totalIssues(results)),
     chunksStored |-> prevStats.chunksStored + totalChunks(results)]

NothingSeen == [batches |-> 0, documents |-> 0, scoreSum |-> 0, issues |-> 0, chunks |-> 0]

\* the running record of every result the timer callback has processed
SeenAfter(s, results) ==
    [batches |-> s.batches + 1,
     documents |-> s.documents + Len(results),
     scoreSum |-> s.scoreSum + ScoreSum(results),
     issues |-> s.issues + totalIssues(results),
     chunks |-> s.chunks + totalChunks(results)]

\* lines 57-78: the callback of the 1 s timer; timers of equal delay fire in
\* the order they were set
processResults ==
    /\ pendingBatches # <<>>
    /\ LET results == Head(pendingBatches)
       IN  /\ analysisResults' = results
           /\ stats' = NextStats(stats, results)
           /\ seen' = SeenAfter(seen, results)
    /\ pendingBatches' = Tail(pendingBatches)
    /\ loading' = FALSE
    \* line 77: fetchDbStats() up to its await
    /\ statsRequests' = statsRequests + 1
    /\ UNCHANGED <<apiHealth, dbStats, healthPending>>
    /\ UNCHANGED <<uploadVars, view, legacyBox, scorer>>

\* lines 43-46: an OK answer to GET /api/documents/stats
statsOk ==
    \E data \in StatsBodies \cup {Absent} :
        /\ statsRequests > 0
        /\ statsRequests' = statsRequests - 1
        /\ dbStats' = data
        /\ UNCHANGED <<stats, loading, analysisResults, apiHealth,
                       pendingBatches, healthPending, seen>>
        /\ UNCHANGED <<uploadVars, view, legacyBox, scorer>>

\* a non-OK answer whose handler clears the stored statistics
statsNotOkClearing ==
    /\ statsRequests > 0
    /\ statsRequests' = statsRequests - 1
    /\ dbStats' = Absent
    /\ UNCHANGED <<stats, loading, analysisResults, apiHealth,
                   pendingBatches, healthPending, seen>>
    /\ UNCHANGED <<uploadVars, view, legacyBox, scorer>>

\* line 43: an answer that is not OK
statsNotOk ==
    /\ statsRequests > 0
    /\ statsRequests' = statsRequests - 1
    /\ UNCHANGED <<stats, loading, analysisResults, apiHealth, dbStats,
                   pendingBatches, healthPending, seen>>
    /\ UNCHANGED <<uploadVars, view, legacyBox, scorer>>

\* lines 47-49: fetch or response.json() rejects
statsRejected ==
    /\ statsRequests > 0
    /\ statsRequests' = statsRequests - 1
    /\ UNCHANGED <<stats, loading, analysisResults, apiHealth, dbStats,
                   pendingBatches, healthPending, seen>>
    /\ UNCHANGED <<uploadVars, view, legacyBox, scorer>>

\* lines 30-33: an OK answer to GET /health
healthOk ==
    \E health \in HealthBodies :
        /\ healthPending
        /\ healthPending' = FALSE
        /\ apiHealth' = Some(health)
        /\ UNCHANGED <<stats, loading, analysisResults, dbStats, pendingBatches,
                       statsRequests, seen>>
        /\ UNCHANGED <<uploadVars, view, legacyBox, scorer>>

\* line 30: an answer that is not OK
healthNotOk ==
    /\ healthPending
    /\ healthPending' = FALSE
    /\ UNCHANGED <<stats, loading, analysisResults, apiHealth, dbStats,
                   pendingBatches, statsRequests, seen>>
    /\ UNCHANGED <<uploadVars, view, legacyBox, scorer>>

\* lines 34-37: fetch or response.json() rejects
healthRejected ==
    /\ healthPending
    /\ healthPending' = FALSE
    /\ apiHealth' = Some([status |-> "error"])
    /\ UNCHANGED <<stats, loading, analysisResults, dbStats, pendingBatches,
                   statsRequests, seen>>
    /\ UNCHANGED <<uploadVars, view, legacyBox, scorer>>

\* lines 83-93: apiHealth && apiHealth.status === 'error', the condition of the
\* 'Backend API is not available' banner
ApiBannerShown == apiHealth # Absent /\ apiHealth[1].status = "error"

\* line 209: finding.category || 'General'
CategoryOf(finding) == IF finding.category = "" THEN "General" ELSE finding.category

\* the property names a plain object ({}) inherits from Object.prototype; each
\* reads as a truthy value that has no push method
ObjectPrototypeKeys ==
    {"constructor", "__proto__", "hasOwnProperty", "isPrototypeOf",
     "propertyIsEnumerable", "toLocaleString", "toString", "valueOf",
     "__defineGetter__", "__defineSetter__", "__lookupGetter__", "__lookupSetter__"}

\* lines 208, 213: the accumulator of the reduce, a plain object: its own
\* properties in the order they were first set, and whether the callback threw
EmptyObject == [threw |-> FALSE, groups |-> <<>>]

\* lines 208-213: one step of the reduce. acc[category] of an own property is
\* its array; of a name of Object.prototype it is the inherited value, truthy,
\* so that no array is set and acc[category].push throws a TypeError
AddToGroups(acc, finding) ==
    LET category == CategoryOf(finding)
    IN  IF acc.threw THEN acc
        ELSE IF \E k \in 1..Len(acc.groups) : acc.groups[k].category = category
        THEN [acc EXCEPT !.groups =
                 [k \in 1..Len(acc.groups) |->
                     IF acc.groups[k].category = category
                     THEN [acc.groups[k] EXCEPT !.findings = Append(@, finding)]
                     ELSE acc.groups[k]]]
        ELSE IF category \in ObjectPrototypeKeys
        THEN [acc EXCEPT !.threw = TRUE]
        ELSE [acc EXCEPT !.groups =
                 Append(@, [category |-> category, findings |-> <<finding>>])]

\* lines 208-213: result.findings.reduce(..., acc); a throw ends the reduce
RECURSIVE GroupsFrom(_, _)
GroupsFrom(acc, findings) ==
    IF acc.threw \/ findings = <<>> THEN acc
    ELSE GroupsFrom(AddToGroups(acc, Head(findings)), Tail(findings))

\* lines 208-213: const grouped = result.findings.reduce(..., {})
grouped(findings) == GroupsFrom(EmptyObject, findings)

\* the digit a character of Digits stands for
DigitOf(c) == CHOOSE n \in 0..9 : CharAt(Digits, n + 1) = c

IsDigits(s) == \A i \in 1..Len(s) : \E n \in 0..9 : CharAt(Digits, n + 1) = CharAt(s, i)

\* a < b for the numbers two canonical decimal strings denote
NumericLess(a, b) ==
    \/ Len(a) < Len(b)
    \/ /\ Len(a) = Len(b)
       /\ \E i \in 1..Len(a) :
              /\ SubSeq(a, 1, i - 1) = SubSeq(b, 1, i - 1)
              /\ DigitOf(CharAt(a, i)) < DigitOf(CharAt(b, i))

\* the largest array index, 2^32 - 2, as a property key
MaxArrayIndexKey == "4294967294"

\* a property key that is an array index: the canonical decimal string of an
\* integer of 0..2^32 - 2
IsArrayIndex(key) ==
    /\ Len(key) >= 1
    /\ IsDigits(key)
    /\ Len(key) > 1 => CharAt(key, 1) # "0"
    /\ ~NumericLess(MaxArrayIndexKey, key)

\* line 215: Object.entries(grouped): the own properties, array-index keys
\* first in ascending numeric order, then the other keys in the order they
\* were first set
ObjectEntries(groups) ==
    LET n == Len(groups)
        isIndex(k) == IsArrayIndex(groups[k].category)
        indexKeys == {k \in 1..n : isIndex(k)}
        rank(k) ==
            IF isIndex(k)
            THEN 1 + Cardinality({m \in indexKeys :
                        NumericLess(groups[m].category, groups[k].category)})
            ELSE 1 + Cardinality(indexKeys)
                   + Cardinality({m \in (1..n) \ indexKeys : m < k})
    IN  [j \in 1..n |-> groups[CHOOSE k \in 1..n : rank(k) = j]]

ShownPerGroup == 3

\* lines 216-254: what one group shows: its name, its count, its first three
\* findings in the order of the group, and the number of those left out
RenderGroup(group) ==
    [category |-> group.category,
     count |-> Len(group.findings),
     shown |-> SubSeq(group.findings, 1,
                      IF Len(group.findings) < ShownPerGroup
                      THEN Len(group.findings) ELSE ShownPerGroup),
     more |-> IF Len(group.findings) > ShownPerGroup
              THEN Len(group.findings) - ShownPerGroup ELSE 0]

\* lines 200-258: the findings block of one result, or the throw of its reduce
RenderFindings(result) ==
    IF Len(result.findings) > 0
    THEN LET obj == grouped(result.findings)
             entries == ObjectEntries(obj.groups)
         IN  [threw |-> obj.threw,
              groups |-> IF obj.threw THEN <<>>
                         ELSE [k \in 1..Len(entries) |-> RenderGroup(entries[k])]]
    ELSE [threw |-> FALSE, groups |-> <<>>]

\* what the Analysis Results section shows before any result is rendered
NothingRendered == [failed |-> FALSE, results |-> <<>>]

\* a render that threw: without an error boundary nothing of the page is shown
RenderFailed == [failed |-> TRUE, results |-> <<>>]

\* lines 177-260: the render of the Analysis Results section
renderResults ==
    /\ LET rendered == [k \in 1..Len(analysisResults) |->
                           RenderFindings(analysisResults[k])]
       IN  view' = IF \E k \in 1..Len(rendered) : rendered[k].threw
                   THEN RenderFailed
                   ELSE [failed |-> FALSE,
                         results |-> [k \in 1..Len(rendered) |-> rendered[k].groups]]
    /\ view' # view
    /\ UNCHANGED <<uploadVars, dashVars, legacyBox, scorer>>

----------------------------------------------------------------------------
(* The UploadBox of unnamed/part_000: files are filtered by MIME type and the
   upload is simulated by a timer *)

\* part_000 lines 33-39
legacyIsValidFile(file) ==
    LET fileType == file.type
    IN  \/ includes(fileType, "pdf")
        \/ includes(fileType, "word")
        \/ includes(fileType, "text")
        \/ includes(fileType, "document")

\* part_000 lines 31-42
legacyHandleFiles(newFiles) ==
    LET accepted == SelectSeq(newFiles, legacyIsValidFile)
    IN  /\ Len(legacyBox.files) + Len(accepted) <= MaxFiles
        /\ legacyBox' = [legacyBox EXCEPT !.files = @ \o accepted]

\* part_000 lines 18-29: handleDrop and handleFileInput
legacyHandleDrop ==
    \E droppedFiles \in DropInputs :
        /\ legacyHandleFiles(droppedFiles)
        /\ UNCHANGED <<uploadVars, dashVars, view, scorer>>

\* part_000 lines 44-46
legacyRemoveFile ==
    \E indexToRemove \in 0..(Len(legacyBox.files) - 1) :
        /\ legacyBox' = [legacyBox EXCEPT !.files = WithoutIndex(@, indexToRemove)]
        /\ UNCHANGED <<uploadVars, dashVars, view, scorer>>

\* part_000 lines 48-53: the click; the timer callback keeps the files of the click
legacyUploadFiles ==
    /\ legacyBox.files # <<>>
    /\ ~legacyBox.uploading
    /\ legacyBox.runs < MaxRuns
    /\ legacyBox' = [legacyBox EXCEPT !.uploading = TRUE,
                                      !.runs = @ + 1,
                                      !.uploadTimers = Append(@, Len(legacyBox.files))]
    /\ UNCHANGED <<uploadVars, dashVars, view, scorer>>

\* part_000 lines 53-66: the callback of the 2 s timer that stands for the upload
legacyUploadDone ==
    /\ legacyBox.uploadTimers # <<>>
    /\ legacyBox' = [legacyBox EXCEPT !.uploading = FALSE,
                                      !.uploadSuccess = TRUE,
                                      !.reported = Append(@, Head(legacyBox.uploadTimers)),
                                      !.uploadTimers = Tail(@),
                                      !.resetTimers = @ + 1]
    /\ UNCHANGED <<uploadVars, dashVars, view, scorer>>

\* part_000 lines 63-66
legacyReset ==
    /\ legacyBox.resetTimers > 0
    /\ legacyBox' = [legacyBox EXCEPT !.files = <<>>,
                                      !.uploadSuccess = FALSE,
                                      !.resetTimers = @ - 1]
    /\ UNCHANGED <<uploadVars, dashVars, view, scorer>>

\* part_000 lines 4-7
InitLegacy ==
    [files |-> <<>>, uploading |-> FALSE, uploadSuccess |-> FALSE,
     uploadTimers |-> <<>>, resetTimers |-> 0, reported |-> <<>>, runs |-> 0]

----------------------------------------------------------------------------
(* The Scorer of the backend (spec section 4.5) *)

Severities == {"Critical", "Major", "Minor"}

CriticalPenalty == 30
MajorPenalty == 15
MinorPenalty == 5

\* the fixed penalty of one finding, by severity
Penalty(finding) ==
    CASE finding.severity = "Critical" -> CriticalPenalty
      [] finding.severity = "Major" -> MajorPenalty
      [] OTHER -> MinorPenalty

TotalPenalty(findings) == SumSeq([k \in 1..Len(findings) |-> Penalty(findings[k])])

\* a Scorer without the floor
ScoreUnfloored(findings) == 100 - TotalPenalty(findings)

\* start at 100, subtract the penalties, floor at 0
Score(findings) ==
    IF TotalPenalty(findings) > 100 THEN 0 ELSE 100 - TotalPenalty(findings)

InitScorer == [findings |-> <<>>, score |-> 100]

\* the Scorer run on a findings list with one more finding
scoreWithFinding ==
    \E severity \in Severities :
        /\ Len(scorer.findings) < MaxScored
        /\ LET findings == Append(scorer.findings, Finding("Structure", severity))
           IN  scorer' = [findings |-> findings, score |-> Score(findings)]
        /\ UNCHANGED <<uploadVars, dashVars, view, legacyBox>>

\* the Scorer run on a findings list with one finding taken out
scoreWithoutFinding ==
    \E k \in 1..Len(scorer.findings) :
        /\ LET findings == WithoutIndex(scorer.findings, k - 1)
           IN  scorer' = [findings |-> findings, score |-> Score(findings)]
        /\ UNCHANGED <<uploadVars, dashVars, view, legacyBox>>

----------------------------------------------------------------------------
(* The page after mount *)

\* UploadBox.jsx lines 4-8
InitUpload ==
    /\ isDragging = FALSE
    /\ files = <<>>
    /\ uploading = FALSE
    /\ uploadSuccess = FALSE
    /\ error = NoError
    /\ run = IdleRun
    /\ resetTimers = 0
    /\ runsStarted = 0
    /\ posted = <<>>

\* Dashboard.jsx lines 8-25: the state, and the two requests of the mount effect
InitDashboard ==
    /\ stats = InitialStats
    /\ loading = FALSE
    /\ analysisResults = <<>>
    /\ apiHealth = Absent
    /\ dbStats = Absent
    /\ pendingBatches = <<>>
    /\ statsRequests = 1
    /\ healthPending = TRUE
    /\ seen = NothingSeen

Init ==
    /\ InitUpload
    /\ InitDashboard
    /\ view = NothingRendered
    /\ legacyBox = InitLegacy
    /\ scorer = InitScorer

\* the upload flow: the UploadBox and what the Dashboard does with its batches
Next ==
    \/ handleDrop
    \/ handleFileInput
    \/ removeFile
    \/ uploadFiles
    \/ analyzeOkNext
    \/ analyzeOkLast
    \/ analyzeNotOk
    \/ analyzeRejected
    \/ resetAfterSuccess
    \/ processResults
    \/ statsOk
    \/ statsNotOk
    \/ statsRejected

Spec == Init /\ [][Next]_vars

\* every request is answered (or its fetch rejects) and every timer fires
AnalyzeAnswered == analyzeOkNext \/ analyzeOkLast \/ analyzeNotOk \/ analyzeRejected
StatsAnswered == statsOk \/ statsNotOk \/ statsRejected
Fairness ==
    /\ WF_vars(AnalyzeAnswered)
    /\ WF_vars(StatsAnswered)
    /\ WF_vars(processResults)
    /\ WF_vars(resetAfterSuccess)

SpecLive == Init /\ [][Next]_vars /\ Fairness

\* the lists of distinct accepted files a user can have selected
SelectedLists ==
    {list \in SeqsOf({f \in FileUniverse : IsValidFile(f)}, 1, MaxFiles) :
        \A a, b \in 1..Len(list) : list[a] = list[b] => a = b}

\* the page once the user has selected distinct files and nothing was uploaded
InitSelected ==
    /\ isDragging = FALSE
    /\ files \in SelectedLists
    /\ uploading = FALSE
    /\ uploadSuccess = FALSE
    /\ error = NoError
    /\ run = IdleRun
    /\ resetTimers = 0
    /\ runsStarted = 0
    /\ posted = <<>>
    /\ InitDashboard
    /\ view = NothingRendered
    /\ legacyBox = InitLegacy
    /\ scorer = InitScorer

\* the upload flow of a user who selects no further file: every entry of the
\* list is one of the entries selected at the start
NextSelected ==
    \/ removeFile
    \/ uploadFiles
    \/ analyzeOkNext
    \/ analyzeOkLast
    \/ analyzeNotOk
    \/ analyzeRejected
    \/ resetAfterSuccess
    \/ processResults
    \/ statsOk
    \/ statsNotOk
    \/ statsRejected

SpecSelected == InitSelected /\ [][NextSelected]_vars

\* the page around the upload flow: the drop zone and the requests of the mount
\* effect; these actions share no variable that the upload flow reads
NextPage ==
    \/ handleDragOver
    \/ handleDragLeave
    \/ handleDrop
    \/ removeFile
    \/ statsOk
    \/ statsNotOk
    \/ statsRejected
    \/ healthOk
    \/ healthNotOk
    \/ healthRejected

SpecPage == Init /\ [][NextPage]_vars

\* the UploadBox of unnamed/part_000 on its own
NextLegacy ==
    \/ legacyHandleDrop
    \/ legacyRemoveFile
    \/ legacyUploadFiles
    \/ legacyUploadDone
    \/ legacyReset

SpecLegacy == Init /\ [][NextLegacy]_vars

\* the Scorer applied to findings lists that grow and shrink by one finding
NextScorer ==
    \/ scoreWithFinding
    \/ scoreWithoutFinding

SpecScorer == Init /\ [][NextScorer]_vars

\* findings the backend may report: the category is a free-form label, "" is a
\* missing one, "9" and "10" are array-index keys and "constructor" is a name
\* of Object.prototype
Categories == {"Structure", "General", "", "10", "9", "constructor"}
FindingUniverse == {Finding(c, v) : c \in Categories, v \in Severities}

\* the page once the one-file batch of sop.docx has been analysed with the given
\* findings and the timer callback has stored the result
AnalysedWith(findings) ==
    LET file == File("sop.docx",
                     "application/vnd.openxmlformats-officedocument.wordprocessingml.document",
                     4096)
        body == [score |-> 45, findings |-> findings,
                 embedding_info |-> Absent, filename |-> Absent]
        results == <<ResultEntry(file, body)>>
    IN  /\ isDragging = FALSE
        /\ files = <<file>>
        /\ uploading = FALSE
        /\ uploadSuccess = TRUE
        /\ error = NoError
        /\ run = [status |-> "done", batch |-> <<file>>, i |-> 1, bodies |-> <<body>>,
                  results |-> results, delivered |-> <<results>>,
                  listEmptyAtCall |-> FALSE, postedBefore |-> 0]
        /\ resetTimers = 1
        /\ runsStarted = 1
        /\ posted = <<file>>
        /\ stats = NextStats(InitialStats, results)
        /\ loading = FALSE
        /\ analysisResults = results
        /\ apiHealth = Absent
        /\ dbStats = Absent
        /\ pendingBatches = <<>>
        /\ statsRequests = 2
        /\ healthPending = TRUE
        /\ seen = SeenAfter(NothingSeen, results)

InitGroup ==
    /\ \E findings \in SeqsOf(FindingUniverse, 0, MaxFindings) : AnalysedWith(findings)
    /\ view = NothingRendered
    /\ legacyBox = InitLegacy
    /\ scorer = InitScorer

\* the render of results with every findings list of the bound
NextGroup ==
    \/ renderResults

SpecGroup == InitGroup /\ [][NextGroup]_vars

----------------------------------------------------------------------------
(* Properties *)

RunEnded == run.status \in {"done", "failed"}

\* the requests the current run has issued
PostedByRun == SubSeq(posted, run.postedBefore + 1, Len(posted))

\* the format a file name declares
HasPdfOrDocxName(file) ==
    LET n == Len(file.name)
        ext4 == IF n >= 4 THEN toLowerCase(SubSeq(file.name, n - 3, n)) ELSE ""
        ext5 == IF n >= 5 THEN toLowerCase(SubSeq(file.name, n - 4, n)) ELSE ""
    IN  ext4 = ".pdf" \/ ext5 = ".docx"

\* C1: every batch ends with one result per submitted file handed to
\* onFilesUploaded, every file of the batch having been sent, whether or not
\* the request of one of them failed.
C1_OneResultPerFile ==
    RunEnded =>
        /\ Len(PostedByRun) = Len(run.batch)
        /\ Len(run.delivered) = 1
        /\ Len(run.delivered[1]) = Len(run.batch)

\* C2: every file in a selected-files list, and every file sent to
\* POST /analyze-sop/, is a PDF or DOCX document.
C2_OnlyPdfOrDocx ==
    /\ \A k \in 1..Len(files) : HasPdfOrDocxName(files[k])
    /\ \A k \in 1..Len(posted) : HasPdfOrDocxName(posted[k])
    /\ \A k \in 1..Len(legacyBox.files) : HasPdfOrDocxName(legacyBox.files[k])

\* C3: no file larger than 10MB is in the selected-files list or is sent to
\* POST /analyze-sop/.
C3_NoFileOverTenMB ==
    /\ \A k \in 1..Len(files) : files[k].size <= TenMB
    /\ \A k \in 1..Len(posted) : posted[k].size <= TenMB

\* C4: a run posts the files of its batch one per request, in the order of the
\* list, each request after the first only once all responses before it were
\* OK, and never more requests than the batch has files.
C4_OneFileAtATimeInOrder ==
    run.status # "idle" =>
        /\ run.i \in 1..Len(run.batch)
        /\ PostedByRun = SubSeq(run.batch, 1, run.i)
        /\ Len(run.bodies) = (IF run.status = "done" THEN run.i ELSE run.i - 1)
        /\ run.status = "done" => run.i = Len(run.batch)

\* C4 witness: the second request of a two-file batch is in flight
C4_SecondRequestInFlight ==
    /\ run.status = "inflight"
    /\ run.i = 2
    /\ run.batch[1] # run.batch[2]

\* C5: the compliance score and issue count of the stat cards are the rounded
\* average score and the total number of findings of every result processed so
\* far, over all batches.
C5_AggregatesAcrossAllDocuments ==
    seen.documents > 0 =>
        /\ stats.complianceScore =
               NumToString(RoundedAverage(seen.scoreSum, seen.documents)) \o "%"
        /\ stats.issuesFound = Num(seen.issues)

\* C6: the document count shown by the Dashboard never changes by client-side
\* accumulation: whenever it changes it becomes the unique_documents of the
\* server's stats answer.
C6_CountsComeFromServer ==
    [][stats'.documentsUploaded # stats.documentsUploaded =>
          /\ dbStats' # Absent
          /\ stats'.documentsUploaded = dbStats'[1].unique_documents]_vars

SeverityRank(finding) ==
    CASE finding.severity = "Critical" -> 1
      [] finding.severity = "Major" -> 2
      [] OTHER -> 3

\* C7: in every rendered category group the findings are shown Critical before
\* Major before Minor.
C7_SeverityOrderWithinGroups ==
    \A r \in 1..Len(view.results) : \A g \in 1..Len(view.results[r]) :
        LET shown == view.results[r][g].shown
        IN  \A a, b \in 1..Len(shown) :
                a < b => SeverityRank(shown[a]) <= SeverityRank(shown[b])

\* how often x occurs in a list
Occurrences(list, x) == Cardinality({k \in 1..Len(list) : list[k] = x})

\* groups is a partition of findings by category
IsPartition(findings, groups) ==
    /\ \A g, h \in 1..Len(groups) : groups[g].category = groups[h].category => g = h
    /\ \A g \in 1..Len(groups) : \A k \in 1..Len(groups[g].findings) :
           /\ groups[g].findings[k].category \in {groups[g].category, ""}
           /\ groups[g].findings[k].category = "" => groups[g].category = "General"
    /\ \A x \in FindingUniverse :
           Occurrences(findings, x) =
               SumSeq([g \in 1..Len(groups) |-> Occurrences(groups[g].findings, x)])
    /\ SumSeq([g \in 1..Len(groups) |-> Len(groups[g].findings)]) = Len(findings)

\* C8: grouping partitions the findings of every result by category (a missing
\* category counting as 'General'), the group sizes shown add up to
\* findings.length, and rendering the groups changes nothing of the Dashboard's
\* or the UploadBox's state.
C8_GroupingIsProjection ==
    /\ [](~view.failed)
    /\ [](view # NothingRendered =>
             \A r \in 1..Len(analysisResults) :
                 LET obj == grouped(analysisResults[r].findings)
                 IN  /\ ~obj.threw
                     /\ IsPartition(analysisResults[r].findings, obj.groups))
    /\ [](\A r \in 1..Len(view.results) :
             SumSeq([g \in 1..Len(view.results[r]) |-> view.results[r][g].count])
                 = Len(analysisResults[r].findings))
    /\ [][view' # view => UNCHANGED <<dashVars, uploadVars>>]_vars

\* C9: the score is an integer of 0..100, 100 for no finding and 0 once the
\* penalties exceed 100; one more finding never raises it and one finding
\* fewer never lowers it.
C9_ScoreBoundedAndMonotonic ==
    /\ [](scorer.score \in 0..100)
    /\ [](scorer.findings = <<>> => scorer.score = 100)
    /\ [](TotalPenalty(scorer.findings) >= 100 => scorer.score = 0)
    /\ [][/\ Len(scorer'.findings) > Len(scorer.findings) => scorer'.score <= scorer.score
          /\ Len(scorer'.findings) < Len(scorer.findings) => scorer'.score >= scorer.score]_vars

\* C9 witness: the floor is reached with penalties above 100
C9_FloorReached ==
    /\ scorer.score = 0
    /\ TotalPenalty(scorer.findings) > 100

\* entry holds the response body for file, with a filename
IsEntryOf(entry, file, body) ==
    /\ entry.score = body.score
    /\ entry.findings = body.findings
    /\ entry.embedding_info = body.embedding_info
    /\ entry.filename \in {file.name} \cup {body.filename[k] : k \in 1..Len(body.filename)}

\* onFilesUploaded is called exactly once by a run whose requests all
\* succeeded, with one entry per file of the batch in the order of the files,
\* and by no other run
DeliveredOncePerSuccess ==
    /\ run.status \in {"idle", "inflight", "failed"} => run.delivered = <<>>
    /\ run.status = "done" =>
           /\ Len(run.delivered) = 1
           /\ run.delivered[1] # <<>>
           /\ Len(run.delivered[1]) = Len(run.batch)
           /\ \A k \in 1..Len(run.batch) :
                  IsEntryOf(run.delivered[1][k], run.batch[k], run.bodies[k])

\* C10 as stated: onFilesUploaded is called once per successful batch with one
\* entry per file in order, and never while the selected-files list is empty.
C10_NeverCalledWithEmptyList ==
    /\ DeliveredOncePerSuccess
    /\ run.status = "done" => ~run.listEmptyAtCall

\* C10 amended: onFilesUploaded is called once per successful batch with one
\* entry per file in order, never with an empty list and never by a run that
\* was started from an empty selected-files list.
C10_NeverCalledForEmptyBatch ==
    /\ DeliveredOncePerSuccess
    /\ run.status # "idle" => run.batch # <<>>

\* C10 witness: a two-file batch has been delivered
C10_TwoFileBatchDelivered ==
    /\ run.status = "done"
    /\ Len(run.batch) = 2
    /\ run.batch[1] # run.batch[2]

\* the batches handed to handleAnalysisResults by the step, 0 or 1
BatchesHandedOver == IF run'.delivered # run.delivered /\ run'.delivered # <<>> THEN 1 ELSE 0

\* C11: after any sequence of batches handed to handleAnalysisResults,
\* stats.documentsUploaded is the sum of the sizes and stats.chunksStored the
\* sum of the chunks_stored (a missing one counting as 0) of the batches the
\* timer callback has processed; every batch handed over is pending or
\* processed, none is lost and none is counted twice.
C11_CountsSumOverBatches ==
    /\ [](stats.documentsUploaded = seen.documents)
    /\ [](stats.chunksStored = seen.chunks)
    /\ [][seen'.batches + Len(pendingBatches')
              = seen.batches + Len(pendingBatches) + BatchesHandedOver]_vars
    /\ [][seen'.batches # seen.batches =>
              /\ pendingBatches # <<>>
              /\ seen'.batches = seen.batches + 1
              /\ stats'.documentsUploaded
                     = stats.documentsUploaded + Len(Head(pendingBatches))
              /\ pendingBatches' = Tail(pendingBatches)]_vars

\* C11 witness: two batches have been processed, the second while the first
\* was counted already, one result without embedding_info and one with chunks
C11_TwoBatchesCounted ==
    /\ seen.batches = 2
    /\ pendingBatches = <<>>
    /\ stats.documentsUploaded = 3
    /\ stats.chunksStored = 5
    /\ \E k \in 1..Len(analysisResults) : analysisResults[k].embedding_info = Absent

\* C12: every batch handed to handleAnalysisResults is eventually processed by
\* the timer callback, which stores its results and issues a new
\* GET /api/documents/stats in the same step; dbStats changes only by an OK
\* answer, to the stats of that answer, and a non-OK or rejected request
\* leaves it unchanged.
C12_StatsRereadAfterEachBatch ==
    /\ \A n \in 0..(MaxRuns - 1) :
           (seen.batches + Len(pendingBatches) > n) ~> (seen.batches > n)
    /\ [][seen'.batches # seen.batches =>
              /\ analysisResults' = Head(pendingBatches)
              /\ statsRequests' = statsRequests + 1]_vars
    /\ [][dbStats' # dbStats =>
              /\ statsOk
              /\ dbStats' \in StatsBodies \cup {Absent}]_vars
    /\ [][statsNotOk \/ statsRejected => dbStats' = dbStats]_vars

\* C12 witness: two batches were processed and the request of the mount effect
\* and the two issued after them were all answered, dbStats holding an answer
C12_StatsRereadTwice ==
    /\ seen.batches = 2
    /\ pendingBatches = <<>>
    /\ statsRequests = 0
    /\ dbStats # Absent

\* C13: once the health check of the mount effect has ended, the Dashboard
\* shows the 'Backend API is not available' banner unless the response was OK,
\* in which case apiHealth holds the body of that response.
C13_HealthFailureShowsBanner ==
    ~healthPending =>
        \/ ApiBannerShown
        \/ apiHealth # Absent /\ apiHealth[1] \in HealthBodies

\* the step in which a request of the batch fails and the catch block runs
BatchFails == run.status = "inflight" /\ run'.status = "failed"

\* C14: when a request of a batch fails, uploadFiles ends with uploading false,
\* error set to a message and uploadSuccess false, without calling
\* onFilesUploaded, without another request of the batch and with the
\* selected-files list as it was; the next handleFiles or uploadFiles clears
\* the error.
C14_FailureLeavesBatchRetryable ==
    /\ [][BatchFails =>
              /\ uploading' = FALSE
              /\ error' # NoError
              /\ uploadSuccess' = FALSE
              /\ run'.delivered = <<>>
              /\ pendingBatches' = pendingBatches
              /\ posted' = posted
              /\ files' = files]_vars
    /\ [](run.status = "failed" => PostedByRun = SubSeq(run.batch, 1, run.i))
    /\ [][handleDrop \/ handleFileInput \/ uploadFiles => error' = NoError]_vars

\* C15: at most one run of uploadFiles is in progress: uploading is true
\* exactly while a run is in flight, a run starts only while uploading is false
\* (the button is disabled otherwise), and every request issued belongs to the
\* one run in flight.
C15_AtMostOneRunInProgress ==
    /\ [](uploading <=> run.status = "inflight")
    /\ [][runsStarted' # runsStarted =>
              /\ ~uploading
              /\ run.status # "inflight"
              /\ uploading']_vars
    /\ [][posted' # posted =>
              /\ run'.status = "inflight"
              /\ run.status = "inflight" =>
                     /\ run'.batch = run.batch
                     /\ run'.postedBefore = run.postedBefore]_vars

\* C15 witness: a second run is in flight with its second request, the list
\* still holding files, after the first run ended
C15_SecondRunInFlight ==
    /\ runsStarted = 2
    /\ uploading
    /\ run.i = 2
    /\ files # <<>>

\* file has been handed to POST /analyze-sop/
WasPosted(file) == \E j \in 1..Len(posted) : posted[j] = file

\* C16: a file leaves the selected-files list only by removeFile or after it
\* has been sent to POST /analyze-sop/; the delayed reset drops no file that
\* was added while the batch was in flight or during the 3 s after its success.
C16_NoFileDroppedUnsent ==
    [][Len(files') < Len(files) /\ ~removeFile =>
          \A k \in 1..Len(files) : WasPosted(files[k])]_vars

\* C17: each file accepted into the selected-files list is sent to
\* POST /analyze-sop/ at most once: with a list of distinct files and no file
\* added later, no request is for a file that an earlier request has sent.
C17_EachFileSentAtMostOnce ==
    [][posted' # posted => ~WasPosted(posted'[Len(posted')])]_vars

\* C18: with every fetch answered or rejected and every timer fired, each run
\* of uploadFiles ends with uploading false, and after a successful run the
\* component comes back to uploadSuccess false with an empty selected-files
\* list.
C18_RunsEndAndBoxResets ==
    /\ uploading ~> ~uploading
    /\ uploadSuccess ~> (~uploadSuccess /\ files = <<>>)

\* C18 witness: two runs have ended, the second one successfully, and the
\* delayed resets have brought the box back to its idle state
C18_IdleAgainAfterSuccess ==
    /\ runsStarted = 2
    /\ run.status = "done"
    /\ resetTimers = 0
    /\ ~uploading
    /\ ~uploadSuccess
    /\ files = <<>>

====
